---- MODULE Spec2Model ----
(***************************************************************************)
(* Gastos Bot ES (src/main.py): the WhatsApp webhook handler `incoming`,   *)
(* its per-user conversation state machine, the deduplication table, the   *)
(* per-user catalogs and the expense table, as one state machine.          *)
(*                                                                         *)
(* Texts are TLA+ strings over ASCII; the parsers work on them character   *)
(* by character, the way the Python string methods and regular expressions *)
(* of the source do.  Amounts are kept in hundredths (the amount regex     *)
(* admits at most two decimal digits, so float(monto)*100 is an exact      *)
(* integer in the modelled range).  Instants are minutes since the epoch.  *)
(***************************************************************************)
EXTENDS Integers, Sequences, FiniteSets, TLC

(***************************************************************************)
(* Program constants                                                       *)
(***************************************************************************)
TIMEOUT_MIN == 2
MAX_OPS == 5

\* Python's None.  Every text the handler stores is the result of
\* str.strip(), so a string that starts with a blank can never be one.
None == " None"

(***************************************************************************)
(* String helpers (Python str methods)                                     *)
(***************************************************************************)
Ch(s, i) == SubSeq(s, i, i)

Resto(s) == SubSeq(s, 2, Len(s))

Digitos == {"0", "1", "2", "3", "4", "5", "6", "7", "8", "9"}

EsDigito(c) == c \in Digitos

EsEspacio(c) == c \in {" ", "\t", "\n", "\r"}

ValorDigito(c) ==
    CASE c = "0" -> 0 [] c = "1" -> 1 [] c = "2" -> 2 [] c = "3" -> 3
      [] c = "4" -> 4 [] c = "5" -> 5 [] c = "6" -> 6 [] c = "7" -> 7
      [] c = "8" -> 8 [] c = "9" -> 9

Mayusculas == "ABCDEFGHIJKLMNOPQRSTUVWXYZ"
Minusculas == "abcdefghijklmnopqrstuvwxyz"

AMinuscula ==
    [c \in {Ch(Mayusculas, i) : i \in 1..Len(Mayusculas)} |->
        Ch(Minusculas, CHOOSE i \in 1..Len(Mayusculas) : Ch(Mayusculas, i) = c)]

AMayuscula ==
    [c \in {Ch(Minusculas, i) : i \in 1..Len(Minusculas)} |->
        Ch(Mayusculas, CHOOSE i \in 1..Len(Minusculas) : Ch(Minusculas, i) = c)]

LowerCh(c) == IF c \in DOMAIN AMinuscula THEN AMinuscula[c] ELSE c

UpperCh(c) == IF c \in DOMAIN AMayuscula THEN AMayuscula[c] ELSE c

RECURSIVE lower(_)
lower(s) == IF Len(s) = 0 THEN "" ELSE LowerCh(Ch(s, 1)) \o lower(Resto(s))

RECURSIVE upper(_)
upper(s) == IF Len(s) = 0 THEN "" ELSE UpperCh(Ch(s, 1)) \o upper(Resto(s))

RECURSIVE lstrip(_)
lstrip(s) == IF Len(s) > 0 /\ EsEspacio(Ch(s, 1)) THEN lstrip(Resto(s)) ELSE s

RECURSIVE rstrip(_)
rstrip(s) ==
    IF Len(s) > 0 /\ EsEspacio(Ch(s, Len(s)))
    THEN rstrip(SubSeq(s, 1, Len(s) - 1))
    ELSE s

strip(s) == rstrip(lstrip(s))

\* str.isdigit(), over the ASCII alphabet of the model
isdigit(s) == Len(s) > 0 /\ \A i \in 1..Len(s) : EsDigito(Ch(s, i))

\* int(s) for a string of decimal digits
RECURSIVE int(_)
int(s) ==
    IF Len(s) = 0 THEN 0
    ELSE 10 * int(SubSeq(s, 1, Len(s) - 1)) + ValorDigito(Ch(s, Len(s)))

\* `sub in s`
Contiene(s, sub) ==
    \E i \in 1..(Len(s) - Len(sub) + 1) : SubSeq(s, i, i + Len(sub) - 1) = sub

startswith(s, pre) == Len(s) >= Len(pre) /\ SubSeq(s, 1, Len(pre)) = pre

Min(S) == CHOOSE x \in S : \A y \in S : x <= y

Max(S) == CHOOSE x \in S : \A y \in S : x >= y

(***************************************************************************)
(* Input normalizers                                                       *)
(***************************************************************************)
\* The accented synonym of "si" is outside the ASCII alphabet of the model.
normalizar_si_no(txt) ==
    LET t == lower(strip(txt)) IN
    IF t \in {"si", "s", "ok", "dale", "claro", "afirmativo", "yes", "y"} THEN "si"
    ELSE IF t \in {"no", "n", "nope"} THEN "no"
    ELSE None

normalizar_ahora_otro(txt) ==
    LET t == lower(strip(txt)) IN
    IF Contiene(t, "ahora") THEN "ahora"
    ELSE IF Contiene(t, "otro") \/ Contiene(t, "antes") THEN "otro"
    ELSE None

EsBisiesto(y) == (y % 4 = 0 /\ y % 100 # 0) \/ y % 400 = 0

DiasDelMes(y, m) ==
    IF m = 2 THEN (IF EsBisiesto(y) THEN 29 ELSE 28)
    ELSE IF m \in {4, 6, 9, 11} THEN 30
    ELSE 31

\* datetime.date(y, m, d) raises ValueError outside the calendar
FechaValida(y, m, d) ==
    /\ y >= 1 /\ y <= 9999
    /\ m >= 1 /\ m <= 12
    /\ d >= 1 /\ d <= DiasDelMes(y, m)

\* the regex (\d{4})-(\d{2})-(\d{2}) matches at position i
CasaFecha(s, i) ==
    /\ i + 9 <= Len(s)
    /\ \A k \in {0, 1, 2, 3, 5, 6, 8, 9} : EsDigito(Ch(s, i + k))
    /\ Ch(s, i + 4) = "-"
    /\ Ch(s, i + 7) = "-"

\* a date is <<y, m, d>>; <<>> stands for None
parse_fecha(txt) ==
    LET pos == {i \in 1..Len(txt) : CasaFecha(txt, i)} IN
    IF pos = {} THEN <<>>
    ELSE LET i == Min(pos)
             y == int(SubSeq(txt, i, i + 3))
             m == int(SubSeq(txt, i + 5, i + 6))
             d == int(SubSeq(txt, i + 8, i + 9))
         IN  IF FechaValida(y, m, d) THEN <<y, m, d>> ELSE <<>>

\* \b: a boundary between a word character and a non-word character
EsPalabra(c) ==
    EsDigito(c) \/ c = "_" \/ c \in DOMAIN AMinuscula \/ c \in DOMAIN AMayuscula

Limite(s, i) ==
    LET antes == i > 1 /\ i - 1 <= Len(s) /\ EsPalabra(Ch(s, i - 1))
        desp == i >= 1 /\ i <= Len(s) /\ EsPalabra(Ch(s, i))
    IN  antes # desp

\* the regex \b([01]?\d|2[0-3]):([0-5]\d)\b matches at i with an hour of n digits
CasaHora(s, i, n) ==
    /\ i + n + 2 <= Len(s)
    /\ Limite(s, i)
    /\ \/ n = 2 /\ Ch(s, i) \in {"0", "1"} /\ EsDigito(Ch(s, i + 1))
       \/ n = 1 /\ EsDigito(Ch(s, i))
       \/ n = 2 /\ Ch(s, i) = "2" /\ Ch(s, i + 1) \in {"0", "1", "2", "3"}
    /\ Ch(s, i + n) = ":"
    /\ Ch(s, i + n + 1) \in {"0", "1", "2", "3", "4", "5"}
    /\ EsDigito(Ch(s, i + n + 2))
    /\ Limite(s, i + n + 3)

\* a time is <<h, m>>; <<>> stands for None
parse_hora(txt) ==
    LET pos == {i \in 1..Len(txt) : CasaHora(txt, i, 1) \/ CasaHora(txt, i, 2)} IN
    IF pos = {} THEN <<>>
    ELSE LET i == Min(pos)
             n == IF CasaHora(txt, i, 2) THEN 2 ELSE 1
         IN  <<int(SubSeq(txt, i, i + n - 1)), int(SubSeq(txt, i + n + 1, i + n + 2))>>

Monedas == {"ars", "usd", "eur", "brl"}

\* the regex (\d+(?:[.,]\d{1,2})?)\s*(ars|usd|eur|brl)? , IGNORECASE.
\* Result <<monto, moneda>> with monto in hundredths; <<0, None>> stands for
\* (None, None): `not monto` is true of None and of 0.0 alike.
parse_monto_moneda(txt) ==
    LET n == Len(txt)
        pos == {i \in 1..n : EsDigito(Ch(txt, i))}
    IN
    IF pos = {} THEN <<0, None>>
    ELSE LET i == Min(pos)
             j == Max({k \in i..n : \A x \in i..k : EsDigito(Ch(txt, x))})
             frac == j + 2 <= n /\ Ch(txt, j + 1) \in {".", ","} /\ EsDigito(Ch(txt, j + 2))
             k == IF ~frac THEN j
                  ELSE IF j + 3 <= n /\ EsDigito(Ch(txt, j + 3)) THEN j + 3
                  ELSE j + 2
             cent == IF ~frac THEN 0
                     ELSE IF k = j + 3 THEN int(SubSeq(txt, j + 2, j + 3))
                     ELSE 10 * int(SubSeq(txt, j + 2, j + 2))
             e == Min({x \in (k + 1)..(n + 1) : x = n + 1 \/ ~EsEspacio(Ch(txt, x))})
             cod == lower(SubSeq(txt, e, e + 2))
             hayCod == e + 2 <= n /\ cod \in Monedas
         IN  <<100 * int(SubSeq(txt, i, j)) + cent,
               IF hayCod THEN upper(cod) ELSE "ARS">>

MediosDePago == {"efectivo", "debito", "credito", "transferencia"}

medio_pago_valido(txt) ==
    LET t == lower(strip(txt)) IN
    IF t \in MediosDePago THEN t ELSE None

\* `ahora` is the value of datetime.now(utc) read inside the function
\* faulty variant: the window taken in seconds while the clock difference is
\* in minutes
session_expirada_en_segundos(actualizado_en, ahora) ==
    IF actualizado_en < 0 THEN TRUE ELSE (ahora - actualizado_en) > TIMEOUT_MIN * 60

session_expirada(actualizado_en, ahora) ==
    IF actualizado_en < 0 THEN TRUE      \* `if not actualizado_en`
    ELSE (ahora - actualizado_en) > TIMEOUT_MIN

(***************************************************************************)
(* Dates and instants (datetime, pytz)                                     *)
(***************************************************************************)
DigitoStr(n) == Ch("0123456789", n + 1)

Pad2(n) == DigitoStr((n \div 10) % 10) \o DigitoStr(n % 10)

Pad4(n) == Pad2(n \div 100) \o Pad2(n % 100)

\* date.isoformat()
isoformat(f) == Pad4(f[1]) \o "-" \o Pad2(f[2]) \o "-" \o Pad2(f[3])

\* date.fromisoformat() of a YYYY-MM-DD string
fromisoformat(s) ==
    <<int(SubSeq(s, 1, 4)), int(SubSeq(s, 6, 7)), int(SubSeq(s, 9, 10))>>

\* days from 1970-01-01 to the civil date y-m-d (proleptic Gregorian)
DiasDesdeEpoca(y, m, d) ==
    LET yy == IF m <= 2 THEN y - 1 ELSE y
        era == yy \div 400
        yoe == yy - era * 400
        mp == IF m > 2 THEN m - 3 ELSE m + 9
        doy == (153 * mp + 2) \div 5 + d - 1
        doe == yoe * 365 + yoe \div 4 - yoe \div 100 + doy
    IN  era * 146097 + doe - 719468

\* TZ = America/Argentina/Buenos_Aires: UTC-3 all year for the modelled
\* dates (no daylight saving time since 2009); minutes to add to local time
DesfaseTZ == 180

\* tz.localize(datetime.combine(f, time(h, mi))).astimezone(utc), in
\* minutes since the epoch
LocalAUtc(f, h, mi) ==
    DiasDesdeEpoca(f[1], f[2], f[3]) * 1440 + h * 60 + mi + DesfaseTZ

\* f + timedelta(days=1)
DiaSiguiente(f) ==
    IF f[3] < DiasDelMes(f[1], f[2]) THEN <<f[1], f[2], f[3] + 1>>
    ELSE IF f[2] < 12 THEN <<f[1], f[2] + 1, 1>>
    ELSE <<f[1] + 1, 1, 1>>

(***************************************************************************)
(* dict helpers (datos is a Python dict, stored as jsonb)                  *)
(***************************************************************************)
Vacio == <<>>

Put(d, k, v) == [y \in (DOMAIN d) \cup {k} |-> IF y = k THEN v ELSE d[y]]

Pop(d, k) == [y \in (DOMAIN d) \ {k} |-> d[y]]

Get(d, k) == IF k \in DOMAIN d THEN d[k] ELSE None

(***************************************************************************)
(* Bounds of the model and the environment's inputs                        *)
(***************************************************************************)
MaxTicks == 3
MaxGastos == 1
MaxCatalogo == 1

\* the names a user has in a catalog table, whatever their case: the catalogs
\* grow up to MaxCatalogo of them
Distintos(tabla, wa) ==
    {lower(tabla[i].nombre) : i \in {j \in 1..Len(tabla) : tabla[j].whatsapp = wa}}

Users == {"5491100000001"}

\* a message id WhatsApp delivers again
Reenviables == {"wamid.A"}

\* the id of a message that is delivered once
Unico == "wamid.U"

\* 2025-08-15 12:00 UTC
T0 == DiasDesdeEpoca(2025, 8, 15) * 1440 + 720

\* what the user may write whatever the bot asked last: a greeting, a cancel
\* keyword, a free-text query
Globales == {"hola", " Cancelar ", "pasame amex"}

\* what the user may write in answer to the prompt of each state: the answers
\* each branch of the state's rule takes, one that the rule rejects included.
\* 2025-08-15 09:00 in Buenos Aires is the instant T0.
Propios(estado) ==
    CASE estado = None -> {"1", "2"}
      [] estado = "menu" -> {"1", "2", "7"}
      [] estado \in {"confirma_registro", "consulta_confirma", "banco_confirma_crear",
                     "consulta_banco_confirma"} -> {"Si", "no", "tal vez"}
      [] estado = "marca_confirma_crear" -> {"no", "tal vez"}
      [] estado = "fecha_momento" -> {"ahora", "otro momento", "7"}
      [] estado = "pide_fecha" -> {"2025-08-15", "2025-02-30"}
      [] estado = "pide_hora" -> {"09:00", "24:00"}
      [] estado = "consulta_desde" -> {"2025-08-01", "2025-02-30"}
      [] estado = "consulta_hasta" -> {"2025-08-31", "2025-02-30"}
      [] estado = "pide_monto" -> {"1500", "20,5 usd", "0", "mil"}
      [] estado = "pide_descripcion" -> {"cafe"}
      [] estado = "pide_medio_pago" -> {" Efectivo", "cheque"}
      [] estado = "consulta_medio" -> {"0", "1", "7"}
      [] estado \in {"banco_menu", "consulta_banco_menu"} -> {"0", "1", "9", "7", "Galicia"}
      [] estado \in {"banco_valor", "consulta_banco_valor"} -> {"Galicia"}
      [] estado = "marca_menu" -> {"0", "1", "9", "7", "Visa"}
      [] estado = "marca_valor" -> {"Visa"}
      [] estado = "pide_cuenta" -> {"no"}
      [] OTHER -> {}

Estados ==
    {"menu", "consulta_desde", "consulta_hasta", "consulta_medio", "consulta_banco_menu",
     "consulta_banco_valor", "consulta_banco_confirma", "consulta_confirma",
     "confirma_registro", "fecha_momento", "pide_fecha", "pide_hora", "pide_monto",
     "pide_descripcion", "pide_medio_pago", "banco_menu", "banco_valor",
     "banco_confirma_crear", "marca_menu", "marca_valor", "marca_confirma_crear",
     "pide_cuenta"}

Cuerpos == Globales \cup UNION { Propios(e) : e \in Estados }

(***************************************************************************)
(* State                                                                   *)
(***************************************************************************)
VARIABLES
    conversaciones,       \* table conversaciones: whatsapp -> row
    mensajes_procesados,  \* table mensajes_procesados: the keys in Reenviables
    catalogo,             \* tables catalogo_bancos / catalogo_marcas, rows in id order
    gastos,               \* table gastos, rows in insertion order
    now,                  \* the clock, minutes since the epoch
    h,                    \* history: what the last run of the webhook did, and
                          \* how the run before it ended
    enCurso               \* the requests being handled, by server process

vars == <<conversaciones, mensajes_procesados, catalogo, gastos, now, h, enCurso>>

(***************************************************************************)
(* Conversation table                                                      *)
(***************************************************************************)
SinInstante == 0 - 1

get_conv(wa) ==
    IF wa \in DOMAIN conversaciones
    THEN conversaciones[wa]
    ELSE [estado |-> None, datos |-> Vacio, actualizado_en |-> SinInstante]

set_conv(conv, wa, estado, datos) ==
    [w \in (DOMAIN conv) \cup {wa} |->
        IF w = wa
        THEN [estado |-> estado, datos |-> datos, actualizado_en |-> now]
        ELSE conv[w]]

\* faulty variant: the delete does nothing
clear_conv_sin_borrar(conv, wa) == conv

\* faulty variant: the row is reset to the menu instead of deleted
clear_conv_a_menu(conv, wa) == set_conv(conv, wa, "menu", Vacio)

clear_conv(conv, wa) == [w \in (DOMAIN conv) \ {wa} |-> conv[w]]

(***************************************************************************)
(* Idempotence                                                             *)
(***************************************************************************)
\* faulty variant: the id is recorded, the answer is always "not seen"
visto_o_registrar_nunca_visto(tabla, mid) ==
    IF mid = "" THEN [visto |-> FALSE, tabla |-> tabla]
    ELSE [visto |-> FALSE, tabla |-> tabla \cup {mid}]

\* faulty variant: a message without id is answered "seen"
visto_o_registrar_vacio_visto(tabla, mid) ==
    IF mid = "" \/ mid \in tabla THEN [visto |-> TRUE, tabla |-> tabla]
    ELSE [visto |-> FALSE, tabla |-> tabla \cup {mid}]

\* returns the answer and the table after the call
visto_o_registrar(tabla, mid) ==
    IF mid = "" THEN [visto |-> FALSE, tabla |-> tabla]
    ELSE IF mid \in tabla THEN [visto |-> TRUE, tabla |-> tabla]
    ELSE [visto |-> FALSE, tabla |-> tabla \cup {mid}]

(***************************************************************************)
(* Catalog                                                                 *)
(***************************************************************************)
RECURSIVE Invertir(_)
Invertir(s) == IF Len(s) = 0 THEN <<>> ELSE Append(Invertir(Tail(s)), Head(s))

Primeros(s, n) == SubSeq(s, 1, IF Len(s) < n THEN Len(s) ELSE n)

Filas(campo, wa) == SelectSeq(catalogo[campo], LAMBDA r : r.whatsapp = wa)

Nombres(filas) == [i \in 1..Len(filas) |-> filas[i].nombre]

\* faulty variant: the names of every user are listed
listar_opciones_de_todos(campo, wa) ==
    Primeros(Nombres(Invertir(catalogo[campo])), MAX_OPS)

\* select nombre ... where whatsapp=:wa order by id desc limit MAX_OPS
listar_opciones(campo, wa) ==
    Primeros(Nombres(Invertir(Filas(campo, wa))), MAX_OPS)

\* select 1 ... where whatsapp=:wa and lower(nombre)=lower(:v)
existe_opcion(campo, wa, valor) ==
    \E i \in 1..Len(catalogo[campo]) :
        /\ catalogo[campo][i].whatsapp = wa
        /\ lower(catalogo[campo][i].nombre) = lower(valor)

\* the uniqueness rule of the catalog tables: the schema is not part of the
\* sources; the data model states names are case-insensitive-unique within
\* (scope, owner)
Conflicto(tabla, wa, valor) ==
    \E i \in 1..Len(tabla) :
        tabla[i].whatsapp = wa /\ lower(tabla[i].nombre) = lower(valor)

\* faulty variant: the conflict compares the names letter by letter
crear_opcion_sensible(tabla, wa, valor) ==
    IF \E i \in 1..Len(tabla) : tabla[i].whatsapp = wa /\ tabla[i].nombre = valor
    THEN tabla
    ELSE Append(tabla, [whatsapp |-> wa, nombre |-> valor])

\* faulty variant: nothing is inserted
crear_opcion_nula(tabla, wa, valor) == tabla

\* insert ... on conflict do nothing; the table after the call
crear_opcion(tabla, wa, valor) ==
    IF Conflicto(tabla, wa, valor) THEN tabla
    ELSE Append(tabla, [whatsapp |-> wa, nombre |-> valor])

(***************************************************************************)
(* Expense writer and query executor                                       *)
(***************************************************************************)
\* insert into gastos ... returning clave; the table after the call
guardar_gasto(tabla, fila) == Append(tabla, fila)

\* `col ilike :p` for a pattern without wildcards; NULL never matches
ilike(col, p) == col # None /\ lower(col) = lower(p)

\* `col ilike '%p%'`
ilike_contiene(col, p) == col # None /\ Contiene(lower(col), lower(p))

\* faulty variant: the upper limit is the start of the "hasta" day
ejecutar_consulta_guiada_sin_dia_final(wa_from, filtros) ==
    LET f_desde == fromisoformat(filtros["desde"])
        f_hasta == fromisoformat(filtros["hasta"])
        desde == LocalAUtc(f_desde, 0, 0)
        hasta == LocalAUtc(f_hasta, 0, 0)
    IN  { i \in 1..Len(gastos) :
            /\ gastos[i].whatsapp_origen = "+" \o wa_from
            /\ gastos[i].fecha_hora_utc >= desde
            /\ gastos[i].fecha_hora_utc < hasta
            /\ (Get(filtros, "medio") \notin {None, "", "todos"}
                    => gastos[i].medio_pago = filtros["medio"])
            /\ (Get(filtros, "banco") \notin {None, ""}
                    => ilike(gastos[i].banco, filtros["banco"])) }

\* the rows (by position in the table) ejecutar_consulta_guiada selects
ejecutar_consulta_guiada(wa_from, filtros) ==
    LET f_desde == fromisoformat(filtros["desde"])
        f_hasta == fromisoformat(filtros["hasta"])
        desde == LocalAUtc(f_desde, 0, 0)
        hasta == LocalAUtc(DiaSiguiente(f_hasta), 0, 0)
    IN  { i \in 1..Len(gastos) :
            /\ gastos[i].whatsapp_origen = "+" \o wa_from
            /\ gastos[i].fecha_hora_utc >= desde
            /\ gastos[i].fecha_hora_utc < hasta
            /\ (Get(filtros, "medio") \notin {None, "", "todos"}
                    => gastos[i].medio_pago = filtros["medio"])
            /\ (Get(filtros, "banco") \notin {None, ""}
                    => ilike(gastos[i].banco, filtros["banco"])) }

\* The brand pattern of consultar_libre as written in the source,
\* r"\\bvisa|mastercard|amex|naranja|cabal\\b": the first and the last
\* alternative need a literal backslash, which no text of the model has.
MarcasLibres == {"mastercard", "amex", "naranja"}

EnPosicion(s, i, sub) ==
    i + Len(sub) - 1 <= Len(s) /\ SubSeq(s, i, i + Len(sub) - 1) = sub

MarcaLibre(txt) ==
    LET t == lower(txt)
        pos == {i \in 1..Len(t) : \E m \in MarcasLibres : EnPosicion(t, i, m)}
    IN  IF pos = {} THEN None
        ELSE CHOOSE m \in MarcasLibres : EnPosicion(t, Min(pos), m)

\* the rows consultar_libre selects.  Its patterns for the payment method,
\* the bank and the "hasta" date are written with doubled backslashes in a
\* raw string and match no text without a backslash: only the brand and the
\* first date of the text filter.
consultar_libre(wa_from, filtro_txt) ==
    LET marca == MarcaLibre(filtro_txt)
        f_desde == parse_fecha(filtro_txt)
    IN  { i \in 1..Len(gastos) :
            /\ gastos[i].whatsapp_origen = "+" \o wa_from
            /\ (marca # None => ilike_contiene(gastos[i].marca_tarjeta, marca))
            /\ (f_desde # <<>> => gastos[i].fecha_hora_utc >= LocalAUtc(f_desde, 0, 0)) }

(***************************************************************************)
(* What one run of the handler does after reading the conversation:        *)
(*   op      "set" (set_conv estado, datos), "clear" (clear_conv), "none"  *)
(*   crear   the crear_opcion calls, <<campo, valor>> each                 *)
(*   guardar the guardar_gasto calls, the rows handed to it                *)
(*   consulta the queries run ("libre" / "guiada")                         *)
(*   out     the messages sent with enviar_whatsapp, in order              *)
(*   error   an exception left the handler (HTTP 500)                      *)
(***************************************************************************)
Efecto(op, estado, datos, out) ==
    [op |-> op, estado |-> estado, datos |-> datos, out |-> out,
     crear |-> <<>>, guardar |-> <<>>, consulta |-> <<>>, error |-> FALSE]

Set(estado, datos, out) == Efecto("set", estado, datos, out)

Clear(out) == Efecto("clear", None, Vacio, out)

Nada(out) == Efecto("none", None, Vacio, out)

\* outbound messages, by the prompt they carry
M(tipo) == [tipo |-> tipo]

MenuOps(tipo, ops) == [tipo |-> tipo, ops |-> ops]

MValor(tipo, valor) == [tipo |-> tipo, valor |-> valor]

MFilas(tipo, filas) == [tipo |-> tipo, filas |-> filas]

MClave(tipo, clave) == [tipo |-> tipo, clave |-> clave]

MResumen(datos) ==
    [tipo |-> "consulta_resumen", desde |-> datos["desde"], hasta |-> datos["hasta"],
     medio |-> datos["medio"],
     banco |-> IF datos["banco"] \in {None, ""} THEN "todos" ELSE datos["banco"]]

(***************************************************************************)
(* Router: one operator per state of the conversation                      *)
(***************************************************************************)
\* faulty variant: option 1 stores a state name that no branch handles
en_menu_sin_rama(t) ==
    IF t \in {"1", "registrar", "registrar gasto", "gasto"}
    THEN Set("registro", Vacio, <<M("confirma_registro")>>)
    ELSE IF t \in {"2", "consultar", "consultar historial", "historial"}
    THEN Set("consulta_desde", Vacio, <<M("pide_desde")>>)
    ELSE Nada(<<M("no_entendi")>>)

en_menu(t) ==
    IF t \in {"1", "registrar", "registrar gasto", "gasto"}
    THEN Set("confirma_registro", Vacio, <<M("confirma_registro")>>)
    ELSE IF t \in {"2", "consultar", "consultar historial", "historial"}
    THEN Set("consulta_desde", Vacio, <<M("pide_desde")>>)
    ELSE Nada(<<M("no_entendi")>>)

en_consulta_desde(t, datos) ==
    LET f == parse_fecha(t) IN
    IF f = <<>> THEN Nada(<<M("fecha_invalida")>>)
    ELSE Set("consulta_hasta", Put(datos, "desde", isoformat(f)), <<M("pide_hasta")>>)

en_consulta_hasta(t, datos) ==
    LET f == parse_fecha(t) IN
    IF f = <<>> THEN Nada(<<M("fecha_invalida")>>)
    ELSE Set("consulta_medio", Put(datos, "hasta", isoformat(f)), <<M("menu_medio")>>)

MapaMedio(t) ==
    CASE t = "1" -> "efectivo" [] t = "2" -> "debito" [] t = "3" -> "credito"
      [] t = "4" -> "transferencia" [] t = "0" -> "todos"

en_consulta_medio(wa, t, datos) ==
    IF t \in {"0", "1", "2", "3", "4"}
    THEN LET ops == listar_opciones("banco", wa) IN
         Set("consulta_banco_menu",
             Put(Put(datos, "medio", MapaMedio(t)), "ops_banco", ops),
             <<MenuOps("menu_banco_consulta", ops)>>)
    ELSE Nada(<<M("elegi_medio")>>)

A_consulta_confirma(datos) == Set("consulta_confirma", datos, <<MResumen(datos)>>)

en_consulta_banco_menu(wa, texto, t, datos) ==
    LET ops == IF "ops_banco" \in DOMAIN datos THEN datos["ops_banco"] ELSE <<>> IN
    IF isdigit(t)
    THEN LET n == int(t) IN
         IF n = 0 THEN A_consulta_confirma(Put(datos, "banco", None))
         ELSE IF n = 9 THEN Set("consulta_banco_valor", datos, <<M("pide_nombre_banco")>>)
         ELSE IF 1 <= n /\ n <= Len(ops)
         THEN A_consulta_confirma(Put(datos, "banco", ops[n]))
         ELSE Nada(<<M("numero_invalido")>>)
    ELSE LET valor == strip(texto) IN
         IF existe_opcion("banco", wa, valor)
         THEN A_consulta_confirma(Put(datos, "banco", valor))
         ELSE Set("consulta_banco_confirma", Put(datos, "pendiente_banco", valor),
                  <<MValor("no_existe_crear", valor)>>)

en_consulta_banco_valor(texto, datos) ==
    LET valor == strip(texto) IN
    Set("consulta_banco_confirma", Put(datos, "pendiente_banco", valor),
        <<MValor("crear_banco", valor)>>)

en_consulta_banco_confirma(wa, t, datos) ==
    LET resp == normalizar_si_no(t) IN
    IF resp = "si"
    THEN LET d == Pop(Put(datos, "banco", datos["pendiente_banco"]), "pendiente_banco") IN
         [A_consulta_confirma(d) EXCEPT !.crear = <<<<"banco", datos["pendiente_banco"]>>>>]
    ELSE IF resp = "no"
    THEN LET ops == listar_opciones("banco", wa) IN
         Set("consulta_banco_menu", Put(datos, "ops_banco", ops),
             <<MenuOps("menu_banco_consulta", ops)>>)
    ELSE Nada(<<M("responde_si_no")>>)

en_consulta_confirma(from_id, t, datos) ==
    LET resp == normalizar_si_no(t) IN
    IF resp = "si"
    THEN [Clear(<<MFilas("resultado", ejecutar_consulta_guiada(from_id, datos))>>)
            EXCEPT !.consulta = <<"guiada">>]
    ELSE IF resp = "no" THEN Clear(<<M("consulta_cancelada")>>)
    ELSE Nada(<<M("responde_si_no")>>)

en_confirma_registro(t) ==
    LET s == normalizar_si_no(t) IN
    IF s = "si" THEN Set("fecha_momento", Vacio, <<M("ahora_u_otro")>>)
    ELSE IF s = "no" THEN Clear(<<M("gracias")>>)
    ELSE Nada(<<M("responde_si_no")>>)

en_fecha_momento(t, datos) ==
    LET a == normalizar_ahora_otro(t) IN
    IF a = "ahora"
    THEN Set("pide_monto", Put(datos, "fecha_hora_utc", now), <<M("pide_monto")>>)
    ELSE IF a = "otro" THEN Set("pide_fecha", datos, <<M("pide_fecha")>>)
    ELSE Nada(<<M("ahora_u_otro")>>)

en_pide_fecha(t, datos) ==
    LET f == parse_fecha(t) IN
    IF f = <<>> THEN Nada(<<M("fecha_invalida")>>)
    ELSE Set("pide_hora", Put(datos, "fecha_parcial", isoformat(f)), <<M("pide_hora")>>)

en_pide_hora(t, datos) ==
    LET hh == parse_hora(t) IN
    IF hh = <<>> THEN Nada(<<M("hora_invalida")>>)
    ELSE LET utc == LocalAUtc(fromisoformat(datos["fecha_parcial"]), hh[1], hh[2]) IN
         Set("pide_monto", Pop(Put(datos, "fecha_hora_utc", utc), "fecha_parcial"),
             <<M("pide_monto")>>)

\* faulty variant: `if monto is None` in place of `if not monto`
en_pide_monto_acepta_cero(texto, datos) ==
    LET mm == parse_monto_moneda(texto) IN
    IF mm[2] = None THEN Nada(<<M("monto_invalido")>>)
    ELSE Set("pide_descripcion", Put(Put(datos, "monto", mm[1]), "moneda", mm[2]),
             <<M("pide_descripcion")>>)

\* faulty variant: the re-prompt goes through set_conv with the same state
en_pide_monto_reescribe(texto, datos) ==
    LET mm == parse_monto_moneda(texto) IN
    IF mm[1] = 0 THEN Set("pide_monto", datos, <<M("monto_invalido")>>)
    ELSE Set("pide_descripcion", Put(Put(datos, "monto", mm[1]), "moneda", mm[2]),
             <<M("pide_descripcion")>>)

en_pide_monto(texto, datos) ==
    LET mm == parse_monto_moneda(texto) IN
    IF mm[1] = 0 THEN Nada(<<M("monto_invalido")>>)
    ELSE Set("pide_descripcion", Put(Put(datos, "monto", mm[1]), "moneda", mm[2]),
             <<M("pide_descripcion")>>)

en_pide_descripcion(texto, datos) ==
    Set("pide_medio_pago", Put(datos, "descripcion", strip(texto)), <<M("pide_medio_pago")>>)

A_banco_menu(wa, datos) ==
    LET ops == listar_opciones("banco", wa) IN
    Set("banco_menu", Put(datos, "ops_banco", ops), <<MenuOps("menu_banco", ops)>>)

A_marca_menu(wa, datos) ==
    LET opsm == listar_opciones("marca", wa) IN
    Set("marca_menu", Put(datos, "ops_marca", opsm), <<MenuOps("menu_marca", opsm)>>)

A_pide_cuenta(datos) == Set("pide_cuenta", datos, <<M("pide_cuenta")>>)

en_pide_medio_pago(wa, t, datos) ==
    LET mp == medio_pago_valido(t) IN
    IF mp = None THEN Nada(<<M("elegi_medio_pago")>>)
    ELSE A_banco_menu(wa, Put(datos, "medio_pago", mp))

\* faulty variant: the number counts from the end of the list
en_banco_menu_desde_el_final(wa, texto, t, datos) ==
    LET ops == IF "ops_banco" \in DOMAIN datos THEN datos["ops_banco"] ELSE <<>> IN
    IF isdigit(t)
    THEN LET n == int(t) IN
         IF n = 0 THEN A_marca_menu(wa, Put(datos, "banco", None))
         ELSE IF n = 9 THEN Set("banco_valor", datos, <<M("pide_nombre_banco")>>)
         ELSE IF 1 <= n /\ n <= Len(ops)
         THEN A_marca_menu(wa, Put(datos, "banco", ops[Len(ops) + 1 - n]))
         ELSE Nada(<<M("numero_invalido")>>)
    ELSE LET valor == strip(texto) IN
         IF existe_opcion("banco", wa, valor)
         THEN A_marca_menu(wa, Put(datos, "banco", valor))
         ELSE Set("banco_confirma_crear", Put(datos, "pendiente_banco", valor),
                  <<MValor("no_existe_crear", valor)>>)

en_banco_menu(wa, texto, t, datos) ==
    LET ops == IF "ops_banco" \in DOMAIN datos THEN datos["ops_banco"] ELSE <<>> IN
    IF isdigit(t)
    THEN LET n == int(t) IN
         IF n = 0 THEN A_marca_menu(wa, Put(datos, "banco", None))
         ELSE IF n = 9 THEN Set("banco_valor", datos, <<M("pide_nombre_banco")>>)
         ELSE IF 1 <= n /\ n <= Len(ops) THEN A_marca_menu(wa, Put(datos, "banco", ops[n]))
         ELSE Nada(<<M("numero_invalido")>>)
    ELSE LET valor == strip(texto) IN
         IF existe_opcion("banco", wa, valor)
         THEN A_marca_menu(wa, Put(datos, "banco", valor))
         ELSE Set("banco_confirma_crear", Put(datos, "pendiente_banco", valor),
                  <<MValor("no_existe_crear", valor)>>)

en_banco_valor(texto, datos) ==
    LET valor == strip(texto) IN
    Set("banco_confirma_crear", Put(datos, "pendiente_banco", valor),
        <<MValor("crear_banco", valor)>>)

en_banco_confirma_crear(wa, t, datos) ==
    LET resp == normalizar_si_no(t) IN
    IF resp = "si"
    THEN LET d == Pop(Put(datos, "banco", datos["pendiente_banco"]), "pendiente_banco") IN
         [A_marca_menu(wa, d) EXCEPT !.crear = <<<<"banco", datos["pendiente_banco"]>>>>]
    ELSE IF resp = "no" THEN A_banco_menu(wa, datos)
    ELSE Nada(<<M("responde_si_no")>>)

en_marca_menu(wa, texto, t, datos) ==
    LET ops == IF "ops_marca" \in DOMAIN datos THEN datos["ops_marca"] ELSE <<>> IN
    IF isdigit(t)
    THEN LET n == int(t) IN
         IF n = 0 THEN A_pide_cuenta(Put(datos, "marca_tarjeta", None))
         ELSE IF n = 9 THEN Set("marca_valor", datos, <<M("pide_nombre_marca")>>)
         ELSE IF 1 <= n /\ n <= Len(ops) THEN A_pide_cuenta(Put(datos, "marca_tarjeta", ops[n]))
         ELSE Nada(<<M("numero_invalido")>>)
    ELSE LET valor == strip(texto) IN
         IF existe_opcion("marca", wa, valor)
         THEN A_pide_cuenta(Put(datos, "marca_tarjeta", valor))
         ELSE Set("marca_confirma_crear", Put(datos, "pendiente_marca", valor),
                  <<MValor("no_existe_crear", valor)>>)

en_marca_valor(texto, datos) ==
    LET valor == strip(texto) IN
    Set("marca_confirma_crear", Put(datos, "pendiente_marca", valor),
        <<MValor("crear_marca", valor)>>)

\* faulty variant: the name is created whatever the answer
en_marca_confirma_crear_sin_respuesta(wa, t, datos) ==
    LET d == Pop(Put(datos, "marca_tarjeta", datos["pendiente_marca"]), "pendiente_marca") IN
    [A_pide_cuenta(d) EXCEPT !.crear = <<<<"marca", datos["pendiente_marca"]>>>>]

en_marca_confirma_crear(wa, t, datos) ==
    LET resp == normalizar_si_no(t) IN
    IF resp = "si"
    THEN LET d == Pop(Put(datos, "marca_tarjeta", datos["pendiente_marca"]), "pendiente_marca") IN
         [A_pide_cuenta(d) EXCEPT !.crear = <<<<"marca", datos["pendiente_marca"]>>>>]
    ELSE IF resp = "no" THEN A_marca_menu(wa, datos)
    ELSE Nada(<<M("responde_si_no")>>)

\* faulty variant: the currency of the row is always the home currency
FilaGasto_moneda_fija(wa, texto, t, datos) ==
    [fecha_hora_utc |-> IF "fecha_hora_utc" \in DOMAIN datos THEN datos["fecha_hora_utc"] ELSE now,
     monto |-> datos["monto"],
     moneda |-> "ARS",
     descripcion |-> Get(datos, "descripcion"),
     categoria |-> Get(datos, "categoria"),
     comercio |-> Get(datos, "comercio"),
     medio_pago |-> Get(datos, "medio_pago"),
     banco |-> Get(datos, "banco"),
     marca_tarjeta |-> Get(datos, "marca_tarjeta"),
     cuenta_pago |-> IF t \in {"ninguno", "na", "n/a", "no"} THEN None ELSE strip(texto),
     texto_original |-> "registrado via dialogo",
     whatsapp_origen |-> wa]

\* the row the commit in pide_cuenta hands to guardar_gasto
FilaGasto(wa, texto, t, datos) ==
    [fecha_hora_utc |-> IF "fecha_hora_utc" \in DOMAIN datos THEN datos["fecha_hora_utc"] ELSE now,
     monto |-> datos["monto"],
     moneda |-> datos["moneda"],
     descripcion |-> Get(datos, "descripcion"),
     categoria |-> Get(datos, "categoria"),
     comercio |-> Get(datos, "comercio"),
     medio_pago |-> Get(datos, "medio_pago"),
     banco |-> Get(datos, "banco"),
     marca_tarjeta |-> Get(datos, "marca_tarjeta"),
     cuenta_pago |-> IF t \in {"ninguno", "na", "n/a", "no"} THEN None ELSE strip(texto),
     texto_original |-> "registrado via dialogo",
     whatsapp_origen |-> wa]

\* `falla`: the insert of guardar_gasto raises (the store is unavailable or
\* rejects the row); nothing in the handler catches it
en_pide_cuenta(wa, texto, t, datos, falla) ==
    LET fila == FilaGasto(wa, texto, t, datos) IN
    IF falla
    THEN [Nada(<<>>) EXCEPT !.guardar = <<fila>>, !.error = TRUE]
    ELSE [Clear(<<MClave("gasto_registrado", Len(gastos) + 1)>>) EXCEPT !.guardar = <<fila>>]

router(wa, from_id, texto, t, estado, datos, falla) ==
    CASE estado = "menu" -> en_menu(t)
      [] estado = "consulta_desde" -> en_consulta_desde(t, datos)
      [] estado = "consulta_hasta" -> en_consulta_hasta(t, datos)
      [] estado = "consulta_medio" -> en_consulta_medio(wa, t, datos)
      [] estado = "consulta_banco_menu" -> en_consulta_banco_menu(wa, texto, t, datos)
      [] estado = "consulta_banco_valor" -> en_consulta_banco_valor(texto, datos)
      [] estado = "consulta_banco_confirma" -> en_consulta_banco_confirma(wa, t, datos)
      [] estado = "consulta_confirma" -> en_consulta_confirma(from_id, t, datos)
      [] estado = "confirma_registro" -> en_confirma_registro(t)
      [] estado = "fecha_momento" -> en_fecha_momento(t, datos)
      [] estado = "pide_fecha" -> en_pide_fecha(t, datos)
      [] estado = "pide_hora" -> en_pide_hora(t, datos)
      [] estado = "pide_monto" -> en_pide_monto(texto, datos)
      [] estado = "pide_descripcion" -> en_pide_descripcion(texto, datos)
      [] estado = "pide_medio_pago" -> en_pide_medio_pago(wa, t, datos)
      [] estado = "banco_menu" -> en_banco_menu(wa, texto, t, datos)
      [] estado = "banco_valor" -> en_banco_valor(texto, datos)
      [] estado = "banco_confirma_crear" -> en_banco_confirma_crear(wa, t, datos)
      [] estado = "marca_menu" -> en_marca_menu(wa, texto, t, datos)
      [] estado = "marca_valor" -> en_marca_valor(texto, datos)
      [] estado = "marca_confirma_crear" -> en_marca_confirma_crear(wa, t, datos)
      [] estado = "pide_cuenta" -> en_pide_cuenta(wa, texto, t, datos, falla)
      [] OTHER -> Nada(<<M("fallback")>>)

(***************************************************************************)
(* The handler after deduplication: timeout, shortcuts, greeting, router   *)
(***************************************************************************)
Expirada(conv) == conv.estado # None /\ session_expirada(conv.actualizado_en, now)

\* faulty variant: the first keyword is missing
EsCancelar_sin_cancelar(t) == t \in {"salir", "stop"}

EsCancelar(t) == t \in {"cancelar", "salir", "stop"}

EsConsultaLibre(t) ==
    startswith(t, "pasame ") \/ Contiene(t, "desde") \/ Contiene(t, "hasta")

\* the accented spelling of "menu" is outside the ASCII alphabet of the model
EsSaludo(t) == t \in {"hola", "menu", "hi", "inicio", "buenas"}

\* faulty variant: the free-text query ends the dialogue it interrupts
procesar_consulta_borra(wa, from_id, texto, conv, falla) ==
    LET t == lower(texto) IN
    IF Expirada(conv) THEN Clear(<<M("timeout")>>)
    ELSE IF EsCancelar(t) THEN Clear(<<M("cancelado")>>)
    ELSE IF EsConsultaLibre(t)
    THEN [Clear(<<MFilas("resultado_libre", consultar_libre(from_id, texto))>>)
            EXCEPT !.consulta = <<"libre">>]
    ELSE IF EsSaludo(t) THEN Set("menu", Vacio, <<M("menu")>>)
    ELSE IF conv.estado = None THEN Set("menu", Vacio, <<M("menu")>>)
    ELSE router(wa, from_id, texto, t, conv.estado, conv.datos, falla)

procesar(wa, from_id, texto, conv, falla) ==
    LET t == lower(texto) IN
    IF Expirada(conv) THEN Clear(<<M("timeout")>>)
    ELSE IF EsCancelar(t) THEN Clear(<<M("cancelado")>>)
    ELSE IF EsConsultaLibre(t)
    THEN [Nada(<<MFilas("resultado_libre", consultar_libre(from_id, texto))>>)
            EXCEPT !.consulta = <<"libre">>]
    ELSE IF EsSaludo(t) THEN Set("menu", Vacio, <<M("menu")>>)
    ELSE IF conv.estado = None THEN Set("menu", Vacio, <<M("menu")>>)
    ELSE router(wa, from_id, texto, t, conv.estado, conv.datos, falla)

(***************************************************************************)
(* The webhook                                                             *)
(***************************************************************************)
\* the messages a user may send, given the answers the user may write.  The
\* handler looks at the id and at the body independently of each other: the
\* message that is delivered again, and the one without id, carry a greeting.
MensajesDe(u, cuerpos) ==
    [id : {Unico}, from : {u}, body : cuerpos]
        \cup [id : Reenviables \cup {None}, from : {u}, body : {"hola"}]

\* a message without sender and without text body (a status notification)
SinRemitente == [id |-> Unico, from |-> None, body |-> None]

\* value["messages"]: absent or empty, or one message
PayloadsDe(mensajes) == {<<>>, <<SinRemitente>>} \cup {<<m>> : m \in mensajes}

\* the user answers the prompt of the state the session is in
Mensajes ==
    UNION { MensajesDe(u, Globales \cup Propios(get_conv("+" \o u).estado)) : u \in Users }

Payloads == PayloadsDe(Mensajes)

\* the store may fail only where the handler writes an expense
Fallas(messages) ==
    IF /\ messages # <<>>
       /\ messages[1].from # None
       /\ get_conv("+" \o messages[1].from).estado = "pide_cuenta"
    THEN BOOLEAN ELSE {FALSE}

\* with the clock running: a user whose session has expired may write any of
\* the answers above; the dialogue is followed up to the account question,
\* which the user answers only after the session has expired
CuerposReloj(conv) ==
    IF Expirada(conv) THEN Cuerpos
    ELSE IF conv.estado = "pide_cuenta" THEN Globales
    ELSE Globales \cup Propios(conv.estado)

MensajesReloj == UNION { MensajesDe(u, CuerposReloj(get_conv("+" \o u))) : u \in Users }

PayloadsReloj == PayloadsDe(MensajesReloj)

\* the server processes that handle requests at the same time
Procesos == {"p1", "p2"}

\* a process that handles no request
Libre ==
    [pc |-> "libre", mid |-> "", from |-> None, texto |-> "",
     conv |-> [estado |-> None, datos |-> Vacio, actualizado_en |-> SinInstante]]

SinCorrida ==
    [corrida |-> FALSE, ignorado |-> FALSE, mid |-> "", from |-> None, texto |-> "",
     visto |-> FALSE, registrado |-> FALSE, leido |-> FALSE, estado |-> None, expirada |-> FALSE,
     op |-> "none", crear |-> <<>>, guardar |-> <<>>, consulta |-> <<>>,
     out |-> <<>>, error |-> FALSE, previa |-> "otro", cuando |-> SinInstante]

\* how a run ended: by the timeout notice, by a cancellation, with an expense
\* stored, with a guided query run, or otherwise
Fin(r) ==
    IF ~r.corrida \/ r.ignorado \/ r.visto THEN "otro"
    ELSE IF r.expirada THEN "timeout"
    ELSE IF Len(r.out) = 1 /\ r.out[1].tipo = "cancelado" THEN "cancelado"
    ELSE IF r.guardar # <<>> /\ ~r.error THEN "gasto"
    ELSE IF r.consulta = <<"guiada">> THEN "consulta"
    ELSE "otro"

Aplicar(conv, wa, e) ==
    CASE e.op = "set" -> set_conv(conv, wa, e.estado, e.datos)
      [] e.op = "clear" -> clear_conv(conv, wa)
      [] OTHER -> conv

Crear(cat, wa, e) ==
    IF e.crear = <<>> THEN cat
    ELSE [cat EXCEPT ![e.crear[1][1]] = crear_opcion(@, wa, e.crear[1][2])]

Guardar(tabla, e) ==
    IF e.guardar = <<>> \/ e.error THEN tabla ELSE guardar_gasto(tabla, e.guardar[1])

Corrida(mid, from_id, texto, conv, e) ==
    [corrida |-> TRUE, ignorado |-> FALSE, mid |-> mid, from |-> from_id,
     texto |-> texto, visto |-> FALSE, registrado |-> FALSE, leido |-> TRUE, estado |-> conv.estado,
     expirada |-> Expirada(conv), op |-> e.op, crear |-> e.crear,
     guardar |-> e.guardar, consulta |-> e.consulta, out |-> e.out,
     error |-> e.error, previa |-> Fin(h), cuando |-> now]

incoming(messages, falla) ==
    /\ UNCHANGED enCurso
    /\ IF messages = <<>> \/ messages[1].from = None
       THEN \* no message, or msg["from"] raises KeyError: return {"ok": True}
            /\ h' = [SinCorrida EXCEPT !.corrida = TRUE, !.ignorado = TRUE, !.previa = Fin(h),
                                 !.cuando = now]
            /\ UNCHANGED <<conversaciones, mensajes_procesados, catalogo, gastos, now>>
       ELSE LET msg == messages[1]
                mid == IF msg.id = None THEN "" ELSE msg.id
                from_id == msg.from
                wa == "+" \o from_id
            IN  \E texto \in {strip(IF msg.body = None THEN "" ELSE msg.body)},
                   v \in {visto_o_registrar(mensajes_procesados, mid)} :
                  /\ now' = now
                  \* an id that is delivered once is never looked up again
                  /\ mensajes_procesados' = v.tabla \cap Reenviables
                  /\ IF v.visto
                     THEN /\ h' = [SinCorrida EXCEPT !.corrida = TRUE, !.mid = mid,
                                       !.from = from_id, !.texto = texto, !.visto = TRUE,
                                       !.registrado = TRUE, !.previa = Fin(h),
                                       !.cuando = now]
                          /\ UNCHANGED <<conversaciones, catalogo, gastos>>
                     ELSE \E conv \in {get_conv(wa)} :
                          \E e \in {procesar(wa, from_id, texto, conv, falla)} :
                            /\ conversaciones' = Aplicar(conversaciones, wa, e)
                            /\ catalogo' = Crear(catalogo, wa, e)
                            /\ gastos' = Guardar(gastos, e)
                            \* the tables grow up to the bounds
                            /\ gastos' # gastos => Len(gastos') <= MaxGastos
                            /\ \A c \in DOMAIN catalogo :
                                   catalogo'[c] # catalogo[c] =>
                                       \/ Cardinality(Distintos(catalogo'[c], wa)) <= MaxCatalogo
                                       \/ Distintos(catalogo'[c], wa) = Distintos(catalogo[c], wa)
                            /\ h' = [Corrida(mid, from_id, texto, conv, e)
                                       EXCEPT !.registrado = mid \in v.tabla]

\* time passes
Tick ==
    /\ now < T0 + MaxTicks
    /\ now' = now + 1
    /\ UNCHANGED <<conversaciones, mensajes_procesados, catalogo, gastos, h, enCurso>>

Init ==
    /\ conversaciones = <<>>
    /\ mensajes_procesados = {}
    /\ catalogo = [banco |-> <<>>, marca |-> <<>>]
    /\ gastos = <<>>
    /\ now = T0
    /\ h = SinCorrida
    /\ enCurso = [p \in Procesos |-> Libre]

\* the dialogue, every message within the same minute
Next == \E messages \in Payloads : \E falla \in Fallas(messages) : incoming(messages, falla)

Spec == Init /\ [][Next]_vars

\* the dialogue with the clock running
NextReloj ==
    \/ \E messages \in PayloadsReloj : incoming(messages, FALSE)
    \/ Tick

SpecReloj == Init /\ [][NextReloj]_vars

(***************************************************************************)
(* The dialogue around the catalog: one user goes through the bank and     *)
(* brand menus of a registration and through the bank menu of a query,     *)
(* with a catalog that is empty or already holds two names of each kind.   *)
(* The account question is never answered: no expense is stored.           *)
(***************************************************************************)
PropiosCatalogo(estado) ==
    CASE estado = None -> {"1", "2"}
      [] estado = "menu" -> {"1", "2"}
      [] estado = "confirma_registro" -> {"Si"}
      [] estado = "fecha_momento" -> {"ahora"}
      [] estado = "pide_monto" -> {"1500"}
      [] estado = "pide_descripcion" -> {"cafe"}
      [] estado = "pide_medio_pago" -> {"credito"}
      [] estado = "consulta_desde" -> {"2025-08-01"}
      [] estado = "consulta_hasta" -> {"2025-08-31"}
      [] estado = "consulta_medio" -> {"0"}
      [] estado \in {"banco_menu", "consulta_banco_menu"} ->
            {"0", "1", "2", "3", "7", "9", "10", "Macro", "galicia"}
      [] estado \in {"banco_valor", "consulta_banco_valor"} -> {"Macro", "", "galicia"}
      [] estado \in {"banco_confirma_crear", "consulta_banco_confirma",
                     "marca_confirma_crear"} -> {"Si", "no", "tal vez"}
      [] estado = "marca_menu" -> {"0", "1", "2", "3", "7", "9", "10", "Cabal", "visa"}
      [] estado = "marca_valor" -> {"Cabal", ""}
      [] estado = "consulta_confirma" -> {"no"}
      [] OTHER -> {}

MensajesCatalogo ==
    UNION { [id : {Unico}, from : {u},
             body : {"hola"} \cup PropiosCatalogo(get_conv("+" \o u).estado)] : u \in Users }

\* a catalog after two banks and two brands were created, oldest first
CatalogoUsado(wa) ==
    [banco |-> <<[whatsapp |-> wa, nombre |-> "Galicia"], [whatsapp |-> wa, nombre |-> "Nacion"]>>,
     marca |-> <<[whatsapp |-> wa, nombre |-> "Visa"], [whatsapp |-> wa, nombre |-> "Amex"]>>]

InitCatalogo ==
    /\ conversaciones = <<>>
    /\ mensajes_procesados = {}
    /\ catalogo \in {[banco |-> <<>>, marca |-> <<>>]}
                        \cup {CatalogoUsado("+" \o u) : u \in Users}
    /\ gastos = <<>>
    /\ now = T0
    /\ h = SinCorrida
    /\ enCurso = [p \in Procesos |-> Libre]

NextCatalogo == \E m \in MensajesCatalogo : incoming(<<m>>, FALSE)

SpecCatalogo == InitCatalogo /\ [][NextCatalogo]_vars

(***************************************************************************)
(* The dialogue around the description: one user registers an expense and  *)
(* answers the description question with texts of every kind, an empty one *)
(* included, while the clock runs.  The account question is never          *)
(* answered.                                                               *)
(***************************************************************************)
Descripciones ==
    {"cafe", "", "ninguno", " Cena x2 ", "nafta desde ypf", "hasta luego",
     "desde 2025-08-01 hasta 2025-08-31", "Pasame amex", "pasame", "Buenas", "salir"}

PropiosTexto(estado) ==
    CASE estado = None -> {"1"}
      [] estado = "menu" -> {"1"}
      [] estado = "confirma_registro" -> {"Si"}
      [] estado = "fecha_momento" -> {"ahora"}
      [] estado = "pide_monto" -> {"1500"}
      [] estado = "pide_descripcion" -> Descripciones
      [] estado = "pide_medio_pago" -> {"efectivo"}
      [] estado = "banco_menu" -> {"0"}
      [] estado = "marca_menu" -> {"0"}
      [] OTHER -> {}

MensajesTexto ==
    UNION { [id : {Unico}, from : {u},
             body : {"hola"} \cup PropiosTexto(get_conv("+" \o u).estado)] : u \in Users }

NextTexto ==
    \/ \E m \in MensajesTexto : incoming(<<m>>, FALSE)
    \/ Tick

SpecTexto == Init /\ [][NextTexto]_vars

(***************************************************************************)
(* Two users.  Each goes through the guided query up to its bank menu,     *)
(* where a bank may be typed and created: both may create a bank of the    *)
(* same name.                                                              *)
(***************************************************************************)
DosUsuarios == {"5491100000001", "5491100000002"}

PropiosDos(estado) ==
    CASE estado = None -> {"2"}
      [] estado = "menu" -> {"2"}
      [] estado = "consulta_desde" -> {"2025-08-01"}
      [] estado = "consulta_hasta" -> {"2025-08-31"}
      [] estado = "consulta_medio" -> {"0"}
      [] estado = "consulta_banco_menu" -> {"1", "galicia"}
      [] estado = "consulta_banco_confirma" -> {"Si", "no"}
      [] estado = "consulta_confirma" -> {"no"}
      [] OTHER -> {}

MensajesDos ==
    UNION { [id : {Unico}, from : {u},
             body : {"hola"} \cup PropiosDos(get_conv("+" \o u).estado)] : u \in DosUsuarios }

NextDos == \E m \in MensajesDos : incoming(<<m>>, FALSE)

SpecDos == Init /\ [][NextDos]_vars

(***************************************************************************)
(* The guided query over a table of expenses stored earlier: one user      *)
(* chooses the dates, the method and the bank and confirms.                *)
(***************************************************************************)
\* a row as the commit of pide_cuenta writes it
FilaGuardada(wa, fecha_hora_utc, medio, banco) ==
    [fecha_hora_utc |-> fecha_hora_utc, monto |-> 150000, moneda |-> "ARS",
     descripcion |-> "cafe", categoria |-> None, comercio |-> None,
     medio_pago |-> medio, banco |-> banco, marca_tarjeta |-> None, cuenta_pago |-> None,
     texto_original |-> "registrado via dialogo", whatsapp_origen |-> wa]

\* expenses of 2025-08-01, 2025-08-15 and 2025-09-01 (local dates)
GastosEjemplo(wa) ==
    <<FilaGuardada(wa, LocalAUtc(<<2025, 8, 1>>, 0, 0), "efectivo", None),
      FilaGuardada(wa, LocalAUtc(<<2025, 8, 15>>, 9, 0), "credito", "Galicia"),
      FilaGuardada(wa, LocalAUtc(<<2025, 9, 1>>, 0, 0), "efectivo", None)>>

\* expenses at the last minute of 2025-07-31 and of 2025-08-31, one of
\* another user, and one at the first minute of 2025-08-01
GastosLimite(wa) ==
    <<FilaGuardada(wa, LocalAUtc(<<2025, 7, 31>>, 23, 59), "efectivo", None),
      FilaGuardada(wa, LocalAUtc(<<2025, 8, 31>>, 23, 59), "efectivo", "Galicia"),
      FilaGuardada("+5491100000002", LocalAUtc(<<2025, 8, 15>>, 12, 0), "efectivo", None),
      FilaGuardada(wa, LocalAUtc(<<2025, 8, 1>>, 0, 0), "debito", None)>>

PropiosConsulta(estado) ==
    CASE estado = None -> {"2"}
      [] estado = "menu" -> {"2"}
      [] estado = "consulta_desde" -> {"2025-08-01"}
      [] estado = "consulta_hasta" -> {"2025-08-31", "2025-08-01"}
      [] estado = "consulta_medio" -> {"0", "1", "3"}
      [] estado = "consulta_banco_menu" -> {"0", "galicia"}
      [] estado = "consulta_banco_confirma" -> {"Si"}
      [] estado = "consulta_confirma" -> {"Si", "no"}
      [] OTHER -> {}

MensajesConsulta ==
    UNION { [id : {Unico}, from : {u},
             body : {"hola"} \cup PropiosConsulta(get_conv("+" \o u).estado)] : u \in Users }

InitConsulta ==
    /\ conversaciones = <<>>
    /\ mensajes_procesados = {}
    /\ catalogo = [banco |-> <<>>, marca |-> <<>>]
    /\ gastos \in UNION { {GastosEjemplo("+" \o u), GastosLimite("+" \o u)} : u \in Users }
    /\ now = T0
    /\ h = SinCorrida
    /\ enCurso = [p \in Procesos |-> Libre]

NextConsulta == \E m \in MensajesConsulta : incoming(<<m>>, FALSE)

SpecConsulta == InitConsulta /\ [][NextConsulta]_vars

(***************************************************************************)
(* Requests handled at the same time.  Nothing in the handler orders two   *)
(* requests: each database call is a transaction of its own, and two       *)
(* server processes may run their calls in any interleaving.  A request    *)
(* goes through: payload read, select and insert of visto_o_registrar,     *)
(* get_conv, and the decision with its writes.                             *)
(***************************************************************************)
PropiosConcurrente(estado) ==
    CASE estado = None -> {"1"}
      [] estado = "menu" -> {"1"}
      [] estado = "confirma_registro" -> {"Si"}
      [] estado = "fecha_momento" -> {"ahora"}
      [] estado = "pide_monto" -> {"1500"}
      [] estado = "pide_descripcion" -> {"cafe"}
      [] estado = "pide_cuenta" -> {"no"}
      [] OTHER -> {}

\* the id of a message that is delivered once, to process p
Fresco(p) == "wamid." \o p

\* the messages process p may be handed: a new one, answering the prompt the
\* user sees, or the greeting that is delivered again
MensajesConcurrentes(p) ==
    UNION { [id : {Fresco(p)}, from : {u},
             body : {"hola"} \cup PropiosConcurrente(get_conv("+" \o u).estado)]
                \cup [id : Reenviables, from : {u}, body : {"hola"}] : u \in Users }

\* the key of mensajes_procesados: the schema is not part of the sources; the
\* deduplication contract is keyed by message id, clave_mensaje is its key
ClaveDuplicada(tabla, mid) == mid \in tabla

\* faulty variant: the table accepts a second row with the same key
insertar_mensaje_sin_clave(tabla, mid) == [tabla |-> tabla \cup {mid}, error |-> FALSE]

\* insert into mensajes_procesados(clave_mensaje) values (:id): the table
\* after the statement, or the error it raises
insertar_mensaje(tabla, mid) ==
    IF ClaveDuplicada(tabla, mid) THEN [tabla |-> tabla, error |-> TRUE]
    ELSE [tabla |-> tabla \cup {mid}, error |-> FALSE]

\* a run that ended before the conversation was read
Cortada(r, visto, error) ==
    [SinCorrida EXCEPT !.corrida = TRUE, !.mid = r.mid, !.from = r.from, !.texto = r.texto,
                       !.visto = visto, !.registrado = TRUE, !.error = error,
                       !.previa = Fin(h), !.cuando = now]

\* the request arrives and its payload is read
Recibir(p) ==
    /\ enCurso[p].pc = "libre"
    /\ \E m \in MensajesConcurrentes(p) :
         enCurso' = [enCurso EXCEPT ![p] =
                        [Libre EXCEPT !.pc = "select", !.mid = m.id, !.from = m.from,
                                      !.texto = strip(m.body)]]
    /\ UNCHANGED <<conversaciones, mensajes_procesados, catalogo, gastos, now, h>>

\* visto_o_registrar, the select: a message without id is not looked up, one
\* whose id is found ends the request
Seleccionar(p) ==
    LET r == enCurso[p] IN
    /\ r.pc = "select"
    /\ IF r.mid = ""
       THEN enCurso' = [enCurso EXCEPT ![p].pc = "leer"] /\ h' = h
       ELSE IF r.mid \in mensajes_procesados
       THEN enCurso' = [enCurso EXCEPT ![p] = Libre] /\ h' = Cortada(r, TRUE, FALSE)
       ELSE enCurso' = [enCurso EXCEPT ![p].pc = "insert"] /\ h' = h
    /\ UNCHANGED <<conversaciones, mensajes_procesados, catalogo, gastos, now>>

\* visto_o_registrar, the insert: an id recorded in the meantime raises, and
\* the exception leaves the handler
Insertar(p) ==
    LET r == enCurso[p]
        v == insertar_mensaje(mensajes_procesados, r.mid)
    IN  /\ r.pc = "insert"
        \* an id that is delivered once is never looked up again
        /\ mensajes_procesados' = v.tabla \cap Reenviables
        /\ IF v.error
           THEN enCurso' = [enCurso EXCEPT ![p] = Libre] /\ h' = Cortada(r, FALSE, TRUE)
           ELSE enCurso' = [enCurso EXCEPT ![p].pc = "leer"] /\ h' = h
        /\ UNCHANGED <<conversaciones, catalogo, gastos, now>>

\* get_conv
Leer(p) ==
    /\ enCurso[p].pc = "leer"
    /\ enCurso' = [enCurso EXCEPT ![p].pc = "decidir",
                                  ![p].conv = get_conv("+" \o enCurso[p].from)]
    /\ UNCHANGED <<conversaciones, mensajes_procesados, catalogo, gastos, now, h>>

\* the rest of the handler: the decision on the conversation that was read,
\* its writes and its answer
Decidir(p) ==
    LET r == enCurso[p]
        wa == "+" \o r.from
    IN  /\ r.pc = "decidir"
        /\ \E e \in {procesar(wa, r.from, r.texto, r.conv, FALSE)} :
             /\ conversaciones' = Aplicar(conversaciones, wa, e)
             /\ catalogo' = Crear(catalogo, wa, e)
             /\ gastos' = Guardar(gastos, e)
             /\ h' = [Corrida(r.mid, r.from, r.texto, r.conv, e)
                        EXCEPT !.registrado = r.mid # ""]
        /\ enCurso' = [enCurso EXCEPT ![p] = Libre]
        /\ UNCHANGED <<mensajes_procesados, now>>

NextConcurrente ==
    \E p \in Procesos :
        \/ Recibir(p)
        \/ Seleccionar(p)
        \/ Insertar(p)
        \/ Leer(p)
        \/ Decidir(p)

SpecConcurrente == Init /\ [][NextConcurrente]_vars

\* the session of a registration that has come to the account question: an
\* expense of 1500 ARS in cash, entered "now", bank 0 and brand 0
SesionEnCuenta ==
    [estado |-> "pide_cuenta",
     datos |-> [fecha_hora_utc |-> T0, monto |-> 150000, moneda |-> "ARS",
                descripcion |-> "cafe", medio_pago |-> "efectivo",
                banco |-> None, marca_tarjeta |-> None,
                ops_banco |-> <<>>, ops_marca |-> <<>>],
     actualizado_en |-> T0]

\* requests handled at the same time while a user's registration waits for
\* the account
InitCuenta ==
    /\ conversaciones \in {[wa \in {"+" \o u} |-> SesionEnCuenta] : u \in Users}
    /\ mensajes_procesados = {}
    /\ catalogo = [banco |-> <<>>, marca |-> <<>>]
    /\ gastos = <<>>
    /\ now = T0
    /\ h = SinCorrida
    /\ enCurso = [p \in Procesos |-> Libre]

SpecCuenta == InitCuenta /\ [][NextConcurrente]_vars

(***************************************************************************)
(* Properties.  A step that leaves the clock alone is one run of the       *)
(* webhook, and h' says what the run was given and what it did.            *)
(***************************************************************************)
Sesion(tabla, wa) ==
    IF wa \in DOMAIN tabla THEN tabla[wa]
    ELSE [estado |-> None, datos |-> Vacio, actualizado_en |-> SinInstante]

\* this step is a run of the webhook
Corre == h'.corrida /\ now' = now

\* the run was given a message with a sender, not seen before
Atendida == Corre /\ ~h'.ignorado /\ ~h'.visto

Wa == "+" \o h'.from

Antes == Sesion(conversaciones, Wa)

Despues == Sesion(conversaciones', Wa)

\* the sender's session is older than the inactivity window
Vencida ==
    /\ Wa \in DOMAIN conversaciones
    /\ now - conversaciones[Wa].actualizado_en > TIMEOUT_MIN

\* the text is a cancel keyword or a free-text query
Atajo ==
    LET t == lower(h'.texto) IN
    \/ t \in {"cancelar", "salir", "stop"}
    \/ startswith(t, "pasame ") \/ Contiene(t, "desde") \/ Contiene(t, "hasta")

\* the text is one the handler answers before it looks at the state
Interceptado == Atajo \/ lower(h'.texto) \in {"hola", "menu", "hi", "inicio", "buenas"}

\* the run hands the text to the rule of the state
EnRegla(estado) ==
    /\ Atendida
    /\ Wa \in DOMAIN conversaciones
    /\ conversaciones[Wa].estado = estado
    /\ ~Vencida
    /\ ~Interceptado

\* the run wrote nothing and sent nothing
SinEfecto ==
    /\ UNCHANGED <<conversaciones, catalogo, gastos>>
    /\ h'.out = <<>>
    /\ h'.op = "none" /\ h'.crear = <<>> /\ h'.guardar = <<>> /\ h'.consulta = <<>>

\* the run created no catalog entry, stored no expense and ran no query
SinEscrituras ==
    /\ UNCHANGED <<catalogo, gastos>>
    /\ h'.crear = <<>> /\ h'.guardar = <<>> /\ h'.consulta = <<>>

\* C1: a message whose id was already recorded causes no session read, no
\* state transition, no catalog or expense write and no outbound message.
C1_replay_sin_efecto ==
    [][(Corre /\ h'.from # None /\ h'.mid \in mensajes_procesados)
        => (SinEfecto /\ ~h'.leido /\ mensajes_procesados' = mensajes_procesados)]_vars

\* a greeting delivered again while the user is being asked to confirm the
\* registration: the session stays where it was
C1_witness ==
    /\ h.corrida /\ h.visto /\ h.mid = "wamid.A" /\ h.texto = "hola"
    /\ h.out = <<>> /\ ~h.leido
    /\ Sesion(conversaciones, "+" \o h.from).estado = "confirma_registro"

RegEstados ==
    {"fecha_momento", "pide_fecha", "pide_hora", "pide_monto", "pide_descripcion",
     "pide_medio_pago", "banco_menu", "banco_valor", "banco_confirma_crear",
     "marca_menu", "marca_valor", "marca_confirma_crear", "pide_cuenta"}

CamposGasto ==
    {"fecha_hora_utc", "monto", "moneda", "descripcion", "medio_pago", "banco",
     "marca_tarjeta"}

\* what was entered so far is still there, as entered
Conserva(d, d2) == \A k \in CamposGasto \cap DOMAIN d : k \in DOMAIN d2 /\ d2[k] = d[k]

\* C3: a registration flow (confirm yes, now, a valid amount, a description,
\* a valid method, bank 0, brand 0, an account answer) stores what was
\* entered at each step (the amount as typed, ARS when no currency is given,
\* the method, a null bank and brand for option 0), no later step of the
\* flow changes it, and the account answer makes exactly one call of the
\* expense writer, with a row that carries those values; the row is the one
\* the table gains, and the session is deleted.
C3_registro_completo ==
    [][/\ (EnRegla("fecha_momento") /\ h'.texto = "ahora")
            => (Despues.estado = "pide_monto" /\ Despues.datos = [fecha_hora_utc |-> now])
       /\ (EnRegla("pide_monto") /\ h'.texto = "1500")
            => (/\ Despues.estado = "pide_descripcion"
                /\ Despues.datos["monto"] = 150000 /\ Despues.datos["moneda"] = "ARS")
       /\ (EnRegla("pide_monto") /\ h'.texto = "20,5 usd")
            => (/\ Despues.estado = "pide_descripcion"
                /\ Despues.datos["monto"] = 2050 /\ Despues.datos["moneda"] = "USD")
       /\ EnRegla("pide_descripcion")
            => (Despues.estado = "pide_medio_pago" /\ Despues.datos["descripcion"] = h'.texto)
       /\ (EnRegla("pide_medio_pago") /\ h'.texto = "Efectivo")
            => (Despues.estado = "banco_menu" /\ Despues.datos["medio_pago"] = "efectivo")
       /\ (EnRegla("banco_menu") /\ h'.texto = "0")
            => (Despues.estado = "marca_menu" /\ Despues.datos["banco"] = None)
       /\ (EnRegla("marca_menu") /\ h'.texto = "0")
            => (Despues.estado = "pide_cuenta" /\ Despues.datos["marca_tarjeta"] = None)
       /\ (Atendida /\ Antes.estado \in RegEstados /\ Despues.estado \in RegEstados)
            => Conserva(Antes.datos, Despues.datos)
       /\ EnRegla("pide_cuenta")
            => (/\ Len(h'.guardar) = 1
                /\ \A k \in CamposGasto : h'.guardar[1][k] = Antes.datos[k]
                /\ h'.guardar[1].whatsapp_origen = Wa
                /\ ~h'.error => (/\ gastos' = Append(gastos, h'.guardar[1])
                                 /\ Wa \notin DOMAIN conversaciones'))]_vars

\* "20,5 usd", cash, no bank, no brand, no account: the row is in the table
C3_witness ==
    /\ h.corrida /\ h.estado = "pide_cuenta" /\ h.texto = "no" /\ ~h.error
    /\ Len(gastos) = 1 /\ h.guardar = <<gastos[1]>>
    /\ gastos[1].monto = 2050 /\ gastos[1].moneda = "USD"
    /\ gastos[1].descripcion = "cafe" /\ gastos[1].medio_pago = "efectivo"
    /\ gastos[1].banco = None /\ gastos[1].marca_tarjeta = None
    /\ gastos[1].cuenta_pago = None /\ gastos[1].fecha_hora_utc = T0

C5_falla_informada ==
    [][(Corre /\ h'.error) => (h'.out # <<>> /\ Wa \notin DOMAIN conversaciones')]_vars

\* the writer has failed: nothing was sent, the session still asks for the
\* account, nothing was stored
C5_witness ==
    /\ h.corrida /\ h.error /\ h.estado = "pide_cuenta" /\ Len(h.guardar) = 1
    /\ h.out = <<>>
    /\ Sesion(conversaciones, "+" \o h.from).estado = "pide_cuenta"
    /\ gastos = <<>>

C7_original ==
    [][(Atendida /\ Vencida)
        => (Despues.estado = "menu" /\ Despues.datos = Vacio)]_vars

\* C7, amended: the message that finds the session expired leaves the user
\* without session; it is the message after it that is treated as a first
\* contact: unless it is a cancel keyword or a free-text query, it leaves the
\* session in state menu with empty data and the menu prompt is sent.
C7_tras_timeout ==
    [][/\ (Atendida /\ Vencida) => Wa \notin DOMAIN conversaciones'
       /\ (Atendida /\ h'.previa = "timeout" /\ ~Atajo)
            => (/\ Wa \notin DOMAIN conversaciones
                /\ Despues = [estado |-> "menu", datos |-> Vacio, actualizado_en |-> now]
                /\ h'.out = <<M("menu")>>)]_vars

\* "1" after the timeout notice: the menu, not the registration
C7_witness ==
    /\ h.corrida /\ h.previa = "timeout" /\ h.texto = "1" /\ h.estado = None
    /\ h.out = <<M("menu")>>
    /\ Sesion(conversaciones, "+" \o h.from).estado = "menu"
    /\ Sesion(conversaciones, "+" \o h.from).datos = Vacio

\* C8: from every state of a session that has not expired, a cancel keyword
\* deletes the session and sends the cancellation notice; no catalog entry is
\* created, no expense stored, no query run.
C8_cancelar ==
    [][(/\ Atendida
        /\ Wa \in DOMAIN conversaciones
        /\ ~Vencida
        /\ lower(h'.texto) \in {"cancelar", "salir", "stop"})
        => (/\ Wa \notin DOMAIN conversaciones'
            /\ h'.out = <<M("cancelado")>>
            /\ SinEscrituras)]_vars

\* cancelled at the last question of the registration
C8_witness ==
    /\ h.corrida /\ h.estado = "pide_cuenta" /\ ~h.expirada /\ h.texto = "Cancelar"
    /\ h.out = <<M("cancelado")>> /\ h.guardar = <<>>
    /\ conversaciones = <<>> /\ gastos = <<>>

Completa == {"gasto", "consulta", "cancelado"}

\* C9 as stated: after a flow completes or is cancelled the very next input
\* "1" moves the session to confirma_registro and "2" to consulta_desde.
C9_original ==
    [][/\ (Atendida /\ h'.previa \in Completa /\ h'.texto = "1")
            => Despues.estado = "confirma_registro"
       /\ (Atendida /\ h'.previa \in Completa /\ h'.texto = "2")
            => Despues.estado = "consulta_desde"]_vars

\* C9, amended: a flow that completes (expense stored, guided query run) or
\* is cancelled deletes the session; the very next input "1" or "2" only
\* brings the menu: the session is created in state menu with empty data.
\* From state menu, "1" moves to confirma_registro and "2" to consulta_desde.
C9_tras_completar ==
    [][/\ (Corre /\ Fin(h') \in Completa) => Wa \notin DOMAIN conversaciones'
       /\ (Atendida /\ h'.previa \in Completa /\ h'.texto \in {"1", "2"})
            => (/\ Wa \notin DOMAIN conversaciones
                /\ Despues.estado = "menu" /\ Despues.datos = Vacio
                /\ h'.out = <<M("menu")>>)
       /\ (EnRegla("menu") /\ h'.texto = "1")
            => (Despues.estado = "confirma_registro" /\ Despues.datos = Vacio)
       /\ (EnRegla("menu") /\ h'.texto = "2")
            => (Despues.estado = "consulta_desde" /\ Despues.datos = Vacio)]_vars

\* "1" right after an expense was stored: the menu
C9_witness ==
    /\ h.corrida /\ h.previa = "gasto" /\ h.texto = "1" /\ h.estado = None
    /\ h.out = <<M("menu")>>
    /\ Len(gastos) = 1
    /\ Sesion(conversaciones, "+" \o h.from).estado = "menu"

EnCatalogo(campo, wa, nombre) ==
    \E i \in 1..Len(catalogo[campo]) :
        catalogo[campo][i].whatsapp = wa /\ lower(catalogo[campo][i].nombre) = lower(nombre)

\* C10: in banco_menu a name that is not in the user's catalog leads to
\* banco_confirma_crear with the name pending.  There "yes" adds exactly one
\* entry with that name to the user's banks, sets the bank of the session to
\* it and moves to marca_menu; "no" creates nothing, leaves the bank unset
\* and returns to banco_menu with the data as they were (the menu listed
\* again); any other answer changes nothing and asks again.
C10_crear_banco ==
    [][/\ (EnRegla("banco_menu") /\ h'.texto = "Galicia" /\ ~EnCatalogo("banco", Wa, "Galicia"))
            => (/\ Despues.estado = "banco_confirma_crear"
                /\ Despues.datos = Put(Antes.datos, "pendiente_banco", "Galicia")
                /\ SinEscrituras)
       /\ (/\ EnRegla("banco_confirma_crear") /\ h'.texto = "Si"
           /\ ~EnCatalogo("banco", Wa, Antes.datos["pendiente_banco"]))
            => (/\ catalogo' = [catalogo EXCEPT !["banco"] =
                        Append(@, [whatsapp |-> Wa, nombre |-> Antes.datos["pendiente_banco"]])]
                /\ Despues.estado = "marca_menu"
                /\ Despues.datos["banco"] = Antes.datos["pendiente_banco"]
                /\ Conserva(Antes.datos, Despues.datos)
                /\ gastos' = gastos)
       /\ (EnRegla("banco_confirma_crear") /\ h'.texto = "no")
            => (/\ SinEscrituras
                /\ Despues.estado = "banco_menu"
                /\ "banco" \notin DOMAIN Despues.datos
                /\ DOMAIN Despues.datos = DOMAIN Antes.datos \cup {"ops_banco"}
                /\ \A k \in DOMAIN Antes.datos \ {"ops_banco"} :
                        Despues.datos[k] = Antes.datos[k])
       /\ (EnRegla("banco_confirma_crear") /\ h'.texto = "tal vez")
            => (/\ UNCHANGED <<conversaciones, catalogo, gastos>>
                /\ h'.out = <<M("responde_si_no")>>)]_vars

\* "Galicia" was typed and confirmed: it is the user's only bank and the
\* bank of the session, which is at the brand menu
C10_witness ==
    /\ h.corrida /\ h.estado = "banco_confirma_crear" /\ h.texto = "Si"
    /\ h.crear = <<<<"banco", "Galicia">>>>
    /\ catalogo["banco"] = <<[whatsapp |-> "+" \o h.from, nombre |-> "Galicia"]>>
    /\ Sesion(conversaciones, "+" \o h.from).estado = "marca_menu"
    /\ Sesion(conversaciones, "+" \o h.from).datos["banco"] = "Galicia"

\* the states that ask whether to create the pending name, and the key the
\* pending name is kept under
ConfirmaCrear(campo) ==
    IF campo = "banco" THEN {"banco_confirma_crear", "consulta_banco_confirma"}
    ELSE {"marca_confirma_crear"}

Pendiente(campo) == IF campo = "banco" THEN "pendiente_banco" ELSE "pendiente_marca"

\* C11: a catalog table changes only by one row added at its end, in a run
\* that finds the sender's live session in a state asking to confirm the
\* creation and is given a text that reads as yes, and the row carries the
\* sender and the pending name of that session; no row is ever removed or
\* altered.
C11_altas_del_catalogo ==
    [][\A campo \in DOMAIN catalogo :
         /\ Len(catalogo'[campo]) >= Len(catalogo[campo])
         /\ SubSeq(catalogo'[campo], 1, Len(catalogo[campo])) = catalogo[campo]
         /\ catalogo'[campo] # catalogo[campo] =>
              /\ Atendida /\ ~Vencida
              /\ Antes.estado \in ConfirmaCrear(campo)
              /\ normalizar_si_no(lower(h'.texto)) = "si"
              /\ Pendiente(campo) \in DOMAIN Antes.datos
              /\ catalogo'[campo] =
                    Append(catalogo[campo],
                           [whatsapp |-> Wa, nombre |-> Antes.datos[Pendiente(campo)]])]_vars

\* a brand typed in the brand menu was confirmed and is now in the catalog,
\* next to the bank created earlier in the same registration
C11_witness ==
    /\ h.corrida /\ h.estado = "marca_confirma_crear" /\ h.texto = "Si"
    /\ h.crear = <<<<"marca", "Cabal">>>>
    /\ catalogo["marca"] = <<[whatsapp |-> "+" \o h.from, nombre |-> "Cabal"]>>
    /\ catalogo["banco"] = <<[whatsapp |-> "+" \o h.from, nombre |-> "Macro"]>>

\* the options a bank or brand menu was shown with
Mostradas(datos, clave) == IF clave \in DOMAIN datos THEN datos[clave] ELSE <<>>

FueraDeRango(t, ops) == isdigit(t) /\ int(t) \notin {0, 9} /\ ~(1 <= int(t) /\ int(t) <= Len(ops))

\* the answers a state that expects a typed value rejects
Malformado(estado, texto, datos) ==
    LET t == lower(texto) IN
    CASE estado \in {"pide_fecha", "consulta_desde", "consulta_hasta"} -> parse_fecha(t) = <<>>
      [] estado = "pide_hora" -> parse_hora(t) = <<>>
      [] estado = "pide_monto" -> parse_monto_moneda(texto)[1] = 0
      [] estado = "pide_medio_pago" -> t \notin MediosDePago
      [] estado = "consulta_medio" -> t \notin {"0", "1", "2", "3", "4"}
      [] estado \in {"banco_menu", "consulta_banco_menu"} ->
            FueraDeRango(t, Mostradas(datos, "ops_banco"))
      [] estado = "marca_menu" -> FueraDeRango(t, Mostradas(datos, "ops_marca"))
      [] estado \in {"confirma_registro", "consulta_confirma", "banco_confirma_crear",
                     "marca_confirma_crear", "consulta_banco_confirma"} ->
            normalizar_si_no(t) = None
      [] OTHER -> FALSE

\* the prompt each of those states repeats
Repregunta(estado) ==
    CASE estado \in {"pide_fecha", "consulta_desde", "consulta_hasta"} -> "fecha_invalida"
      [] estado = "pide_hora" -> "hora_invalida"
      [] estado = "pide_monto" -> "monto_invalido"
      [] estado = "pide_medio_pago" -> "elegi_medio_pago"
      [] estado = "consulta_medio" -> "elegi_medio"
      [] estado \in {"banco_menu", "consulta_banco_menu", "marca_menu"} -> "numero_invalido"
      [] OTHER -> "responde_si_no"

\* C12: an answer the current state rejects (invalid date, invalid time,
\* amount that does not parse or is zero, unknown method, number outside the
\* menu, neither yes nor no) is answered with the re-prompt of that state and
\* nothing else: the conversation row (state, data, time of last update) is
\* left as it was, and nothing is created, stored or queried.
C12_rechazo_no_avanza ==
    [][\A estado \in Estados :
         (EnRegla(estado) /\ Malformado(estado, h'.texto, Antes.datos))
            => /\ conversaciones' = conversaciones
               /\ SinEscrituras
               /\ h'.op = "none"
               /\ Len(h'.out) = 1 /\ h'.out[1].tipo = Repregunta(estado)]_vars

\* a minute after the amount was asked for the user writes "mil": the
\* session is still waiting for the amount, with the update time it had
C12_witness ==
    /\ h.corrida /\ h.estado = "pide_monto" /\ h.texto = "mil" /\ ~h.expirada
    /\ h.out = <<M("monto_invalido")>>
    /\ Sesion(conversaciones, "+" \o h.from).estado = "pide_monto"
    /\ Sesion(conversaciones, "+" \o h.from).actualizado_en < now

\* C13: a free-text query sent while the sender has a live session leaves the
\* table of conversations as it was (state, data and time of last update of
\* the sender included): the run answers with the result of the query and
\* writes nothing, so the next message is read by the rule of the same state.
C13_consulta_libre_no_toca ==
    [][(Atendida /\ Wa \in DOMAIN conversaciones /\ ~Vencida
            /\ lower(h'.texto) \notin {"cancelar", "salir", "stop"}
            /\ (startswith(lower(h'.texto), "pasame ")
                    \/ Contiene(lower(h'.texto), "desde") \/ Contiene(lower(h'.texto), "hasta")))
          => /\ conversaciones' = conversaciones
             /\ UNCHANGED <<catalogo, gastos>>
             /\ h'.consulta = <<"libre">> /\ h'.op = "none"
             /\ Len(h'.out) = 1 /\ h'.out[1].tipo = "resultado_libre"]_vars

\* a minute after the bank menu of a query was shown the user asks for the
\* Amex movements: the session still waits for the bank, as old as it was
C13_witness ==
    /\ h.corrida /\ h.texto = "pasame amex" /\ h.consulta = <<"libre">>
    /\ h.estado = "consulta_banco_menu"
    /\ Sesion(conversaciones, "+" \o h.from).estado = "consulta_banco_menu"
    /\ Sesion(conversaciones, "+" \o h.from).actualizado_en < now

\* the text begins with the trigger word, or holds both date markers
FraseDeConsulta(t) ==
    startswith(t, "pasame ") \/ (Contiene(t, "desde") /\ Contiene(t, "hasta"))

\* C14: a run answers with a free-text query only if the text begins with
\* "pasame " or contains both "desde" and "hasta"; a text with one of the two
\* markers that does not begin with "pasame " is read by the rule of the
\* current state: in pide_descripcion it is stored as the description.
C14_desvio_de_consulta ==
    [][Atendida =>
         /\ h'.consulta = <<"libre">> => FraseDeConsulta(lower(h'.texto))
         /\ (/\ Wa \in DOMAIN conversaciones /\ ~Vencida
             /\ Antes.estado = "pide_descripcion"
             /\ ~FraseDeConsulta(lower(h'.texto))
             /\ Contiene(lower(h'.texto), "desde") \/ Contiene(lower(h'.texto), "hasta"))
            => /\ Despues.estado = "pide_medio_pago"
               /\ Get(Despues.datos, "descripcion") = h'.texto]_vars

\* "hasta luego", written as the description of an expense, was answered with
\* the result of a free-text query and the description is still being asked
C14_witness ==
    /\ h.corrida /\ h.estado = "pide_descripcion" /\ h.texto = "hasta luego"
    /\ h.consulta = <<"libre">>
    /\ Sesion(conversaciones, "+" \o h.from).estado = "pide_descripcion"
    /\ "descripcion" \notin DOMAIN Sesion(conversaciones, "+" \o h.from).datos

\* process p holds a conversation it read and has not yet decided on
EnSeccion(tabla, p, from_id) == tabla[p].pc = "decidir" /\ tabla[p].from = from_id

\* C15: the read of a user's conversation, the decision and the write of one
\* request are not interleaved with those of another request of the same
\* user: no request reads the conversation while another one of that user is
\* between its read and its write, and every request decides on the
\* conversation that is stored at that moment.
C15_seccion_critica ==
    [][\A p \in Procesos :
         /\ (enCurso[p].pc = "leer" /\ enCurso'[p].pc = "decidir")
              => \A q \in Procesos \ {p} : ~EnSeccion(enCurso, q, enCurso[p].from)
         /\ (enCurso[p].pc = "decidir" /\ enCurso'[p].pc = "libre")
              => enCurso[p].conv = Sesion(conversaciones, "+" \o enCurso[p].from)]_vars

\* the amount and a greeting of the same user were both read against the
\* session that waits for the amount, and neither has written yet
C15_witness ==
    /\ EnSeccion(enCurso, "p1", enCurso["p2"].from)
    /\ EnSeccion(enCurso, "p2", enCurso["p1"].from)
    /\ enCurso["p1"].texto = "1500" /\ enCurso["p2"].texto = "hola"
    /\ enCurso["p1"].conv.estado = "pide_monto"
    /\ enCurso["p2"].conv = enCurso["p1"].conv

\* process p has passed the deduplication with message id mid
Paso(tabla, p, mid) == tabla[p].pc \in {"leer", "decidir"} /\ tabla[p].mid = mid

Menus ==
    {[estado |-> "banco_menu", ops |-> "ops_banco", campo |-> "banco",
      sigue |-> "marca_menu", nuevo |-> "banco_valor", tipo |-> "menu_banco"],
     [estado |-> "consulta_banco_menu", ops |-> "ops_banco", campo |-> "banco",
      sigue |-> "consulta_confirma", nuevo |-> "consulta_banco_valor",
      tipo |-> "menu_banco_consulta"],
     [estado |-> "marca_menu", ops |-> "ops_marca", campo |-> "marca_tarjeta",
      sigue |-> "pide_cuenta", nuevo |-> "marca_valor", tipo |-> "menu_marca"]}

SoloDigitos(t) == Len(t) > 0 /\ \A i \in 1..Len(t) : SubSeq(t, i, i) \in Digitos

\* C17: in the bank and brand menus a text made of digits only is read as a
\* number and never as a name.  0 stores "none" and moves on; 9 asks for a
\* new name, however many names are listed; n from 1 to the length of the
\* list (at most 5) stores the n-th name of the list the menu was shown
\* with and moves on; any other number is answered with the re-prompt and
\* leaves the session as it was.  The list kept with the session is the one
\* sent in the menu message.
C17_numero_es_opcion ==
    [][\A m \in Menus :
         /\ (Atendida /\ h'.op = "set" /\ Despues.estado = m.estado)
              => /\ m.ops \in DOMAIN Despues.datos
                 /\ Len(Despues.datos[m.ops]) <= 5
                 /\ h'.out = <<[tipo |-> m.tipo, ops |-> Despues.datos[m.ops]]>>
         /\ (EnRegla(m.estado) /\ SoloDigitos(h'.texto))
              => LET n == int(h'.texto)
                     ops == Antes.datos[m.ops]
                 IN  /\ h'.crear = <<>>
                     /\ Despues.estado \notin ConfirmaCrear("banco") \cup ConfirmaCrear("marca")
                     /\ n = 0 => /\ Despues.estado = m.sigue
                                 /\ Despues.datos[m.campo] = None
                     /\ n = 9 => /\ Despues.estado = m.nuevo
                                 /\ Despues.datos = Antes.datos
                     /\ (1 <= n /\ n <= Len(ops))
                           => /\ Despues.estado = m.sigue
                              /\ Despues.datos[m.campo] = ops[n]
                     /\ (n # 0 /\ n # 9 /\ ~(1 <= n /\ n <= Len(ops)))
                           => /\ conversaciones' = conversaciones
                              /\ h'.out = <<M("numero_invalido")>>]_vars

\* with the banks Nacion and Galicia listed in that order, "2" chose Galicia
C17_witness ==
    /\ h.corrida /\ h.estado = "banco_menu" /\ h.texto = "2"
    /\ Sesion(conversaciones, "+" \o h.from).estado = "marca_menu"
    /\ Sesion(conversaciones, "+" \o h.from).datos["ops_banco"] = <<"Nacion", "Galicia">>
    /\ Sesion(conversaciones, "+" \o h.from).datos["banco"] = "Galicia"

\* the catalog rows of a user
FilasDe(tabla, wa) == SelectSeq(tabla, LAMBDA r : r.whatsapp = wa)

NombresDe(tabla, wa) == {tabla[i].nombre : i \in {j \in 1..Len(tabla) : tabla[j].whatsapp = wa}}

\* C18: a run for a message of user A leaves the conversation row of every
\* other user (state, data, time of last update) and the catalog rows of
\* every other user as they were; the names listed in a menu sent to A are
\* names of A's own rows, and a typed bank counts as known exactly when A
\* has a row with that name, whatever the other users have.
C18_usuarios_aislados ==
    [][(Corre /\ h'.from # None) =>
         /\ \A u \in DosUsuarios \ {h'.from} :
              /\ Sesion(conversaciones', "+" \o u) = Sesion(conversaciones, "+" \o u)
              /\ ("+" \o u \in DOMAIN conversaciones') = ("+" \o u \in DOMAIN conversaciones)
              /\ \A campo \in DOMAIN catalogo :
                   FilasDe(catalogo'[campo], "+" \o u) = FilasDe(catalogo[campo], "+" \o u)
         /\ \A i \in 1..Len(h'.out) :
              h'.out[i].tipo = "menu_banco_consulta" =>
                 \A j \in 1..Len(h'.out[i].ops) :
                    h'.out[i].ops[j] \in NombresDe(catalogo'["banco"], Wa)
         /\ (EnRegla("consulta_banco_menu") /\ ~SoloDigitos(h'.texto)) =>
              (Despues.estado = "consulta_confirma"
                  <=> \E n \in NombresDe(catalogo["banco"], Wa) : lower(n) = lower(h'.texto))]_vars

\* the first user has created the bank "galicia"; the second user, whose menu
\* listed no bank, typed the same name and is asked whether to create it,
\* while the first user's session waits where it was
C18_witness ==
    /\ h.corrida /\ h.from = "5491100000002" /\ h.estado = "consulta_banco_menu"
    /\ h.texto = "galicia"
    /\ catalogo["banco"] = <<[whatsapp |-> "+5491100000001", nombre |-> "galicia"]>>
    /\ Sesion(conversaciones, "+5491100000002").estado = "consulta_banco_confirma"
    /\ Sesion(conversaciones, "+5491100000002").datos["ops_banco"] = <<>>
    /\ Sesion(conversaciones, "+5491100000001").estado = "consulta_confirma"

\* the local calendar day of an instant, in days since the epoch
DiaLocal(utc) == (utc - DesfaseTZ) \div 1440

DiaDe(iso) ==
    DiasDesdeEpoca(int(SubSeq(iso, 1, 4)), int(SubSeq(iso, 6, 7)), int(SubSeq(iso, 9, 10)))

\* the rows a query with these filters is expected to return
Esperadas(wa, filtros) ==
    { i \in 1..Len(gastos) :
        /\ gastos[i].whatsapp_origen = wa
        /\ DiaDe(filtros["desde"]) <= DiaLocal(gastos[i].fecha_hora_utc)
        /\ DiaLocal(gastos[i].fecha_hora_utc) <= DiaDe(filtros["hasta"])
        /\ filtros["medio"] # "todos" => gastos[i].medio_pago = filtros["medio"]
        /\ filtros["banco"] # None =>
              (gastos[i].banco # None /\ lower(gastos[i].banco) = lower(filtros["banco"])) }

C20_descripcion_literal ==
    [][(/\ Atendida /\ Wa \in DOMAIN conversaciones /\ ~Vencida
        /\ Antes.estado = "pide_descripcion"
        /\ lower(h'.texto) \notin {"cancelar", "salir", "stop"}
        /\ ~FraseDeConsulta(lower(h'.texto)))
          => /\ Despues.estado = "pide_medio_pago"
             /\ Despues.datos = Put(Antes.datos, "descripcion", h'.texto)]_vars

\* "nafta desde ypf" was given as the description: the run answered with a
\* free-text query, and the session still asks for the description
C20_witness ==
    /\ h.corrida /\ h.estado = "pide_descripcion" /\ h.texto = "nafta desde ypf"
    /\ ~h.expirada /\ h.op = "none" /\ h.consulta = <<"libre">>
    /\ Sesion(conversaciones, "+" \o h.from).estado = "pide_descripcion"
    /\ Get(Sesion(conversaciones, "+" \o h.from).datos, "descripcion") = None

\* the states that ask for the name of a new bank or brand
PideNombre == {"banco_valor", "consulta_banco_valor", "marca_valor"}

\* C21: in the states that ask for a new name only a text that is not empty
\* moves on to the confirmation, with that text as the pending name; an empty
\* text leaves the session where it is, and no catalog row ever has an empty
\* name.
C21_nombre_no_vacio ==
    [][/\ \A estado \in PideNombre :
            (EnRegla(estado) /\ h'.texto = "") =>
                /\ Despues.estado = estado
                /\ h'.crear = <<>>
       /\ \A campo \in DOMAIN catalogo : \A i \in 1..Len(catalogo'[campo]) :
            catalogo'[campo][i].nombre # ""]_vars

\* option 9 of the bank menu was answered with a message without text and
\* the creation was confirmed: the catalog holds a bank without name
C21_witness ==
    /\ h.corrida /\ h.estado = "banco_confirma_crear" /\ h.texto = "Si"
    /\ h.crear = <<<<"banco", "">>>>
    /\ catalogo["banco"] = <<[whatsapp |-> "+" \o h.from, nombre |-> ""]>>

\* C22: a message that is attended within TIMEOUT_MIN minutes of the previous
\* attended message of the same user, whatever the answer to that one was, is
\* never answered with the timeout notice.
C22_actividad_reciente ==
    [][(/\ Atendida
        /\ h.corrida /\ ~h.ignorado /\ ~h.visto
        /\ h.from = h'.from
        /\ now - h.cuando <= TIMEOUT_MIN) => ~h'.expirada]_vars

\* C24: the state name of every stored session is one of the names the router
\* has a branch for, and no run ends in the branch after the router.
C24_estados_del_router ==
    /\ \A wa \in DOMAIN conversaciones : conversaciones[wa].estado \in Estados
    /\ \A i \in 1..Len(h.out) : h.out[i].tipo # "fallback"

\* the brand menu was answered with a number that is no option: the router
\* asked again and the session stays in a state it handles
C24_witness ==
    /\ h.corrida /\ ~h.expirada /\ h.estado = "marca_menu" /\ h.texto = "7"
    /\ h.op = "none" /\ h.out # <<>>
    /\ Sesion(conversaciones, "+" \o h.from).estado = "marca_menu"

Acumulado(fila) == [k \in CamposGasto \cup {"whatsapp_origen"} |-> fila[k]]

\* C25: one registration stores at most one expense, also when two messages
\* of its user with different ids are handled at the same time while the
\* session waits for the account: no two rows of the expense table carry the
\* data collected by the same registration.
C25_un_gasto_por_registro ==
    \A i, j \in 1..Len(gastos) :
        i # j => Acumulado(gastos[i]) # Acumulado(gastos[j])

\* both requests read the session that waits for the account, and both
\* stored the expense
C25_witness ==
    /\ h.corrida /\ h.estado = "pide_cuenta" /\ h.guardar # <<>> /\ ~h.error
    /\ Len(gastos) = 2
    /\ Acumulado(gastos[1]) = Acumulado(gastos[2])
====
